---- MODULE Spec2Model ----
(***************************************************************************)
(* Model of the authentication / session layer of the EduBot web client:  *)
(*   - tokenStorage, decodeToken, isTokenExpired and the axios instance    *)
(*     with its request and response interceptors (services/api.ts),       *)
(*   - AuthService.login / logout / getCurrentUser / isAuthenticated       *)
(*     (services/authService.ts),                                          *)
(*   - AuthProvider: initializeAuth, login, logout, refreshUser and the    *)
(*     derived isAuthenticated flag (contexts/AuthContext.tsx).            *)
(*                                                                         *)
(* The browser runs one event loop: a step of the model is one task of it  *)
(* (an event handler, or the handling of one HTTP response together with   *)
(* every continuation that runs in the following microtasks).  Requests    *)
(* of different operations may be in flight at the same time.  The server  *)
(* is the environment: it answers every request in flight with any status  *)
(* it can produce.                                                         *)
(*                                                                         *)
(* An assignment to window.location.href only starts a navigation: the     *)
(* page runs on until the new document is committed, so a response that    *)
(* arrives in between is still handled.  The model counts the assignments  *)
(* made for each request and lets the page run on; every behaviour of the  *)
(* page up to its unloading is a prefix of a behaviour of the model.       *)
(***************************************************************************)
EXTENDS Integers, FiniteSets, Sequences, TLC

\* ------------------------------------------------------------------ bounds
\* The clock (seconds, Date.now() / 1000) runs over 1 .. MaxTime.
MaxTime == 2
\* At most MaxOps operations are started after the provider mounted.
MaxOps == 1

\* ------------------------------------------------------------------ values
\* A stored or transmitted token.  kind "jwt": three dot-separated segments
\* with a base64 JSON payload; exp is its exp claim, 0 when the payload has
\* none.  kind "dummy": a string starting with dummy_token_for_.  kind
\* "opaque": any other string that is not a JWT.  via names where it came
\* from: "page" (stored before the page was loaded), a "login" answer or a
\* "refresh" answer.
NoToken == [kind |-> "none", exp |-> 0, via |-> "none"]

Tok(k, e, v) == [kind |-> k, exp |-> e, via |-> v]

\* The exp claim of the tokens the server issues: access tokens live 30
\* minutes, requests time out after 10 seconds, so a token issued in the
\* modelled window outlives it.
FreshExp == MaxTime + 1

NoUser == [id |-> "", email |-> "", role |-> "none"]

Users ==
  { [id |-> "1", email |-> "admin@school.com", role |-> "admin"],
    [id |-> "2", email |-> "student@school.com", role |-> "student"],
    [id |-> "3", email |-> "teacher@school.com", role |-> "teacher"] }

Absent == [absent |-> TRUE]

\* The operations of the client that send requests through the axios instance.
Procs == {"init", "login", "logout", "refreshUser", "api"}

\* HTTP outcomes: 200, 401, 500 and 0 (no response: network error or the
\* 10 s timeout of the instance).
Statuses == {200, 401, 500, 0}

VARIABLES
  now,           \* Date.now() / 1000
  localStorage,  \* [auth_token, refresh_token]
  pathname,      \* window.location.pathname
  user,          \* AuthProvider state: user
  isLoading,     \* AuthProvider state: isLoading
  r,             \* r[p]: the request of operation p (its axios config and place)
  nOps,          \* operations started so far
  last,          \* the step just taken (history)
  view,          \* the route element rendered last and what its guard returned
  edubot,        \* localStorage, the edubot_* keys of lib/auth.ts
  listeners,     \* lib AuthService: this.listeners
  fetchReq,      \* the request of the fetch clients (lib/api.ts, lib/auth.ts)
  libLast,       \* the step of the lib clients just taken (history)
  loggedOut,     \* AuthProvider.logout() completed and no login() succeeded since (history)
  dash,          \* AdminDashboard: its lists, flags and the fetches of loadUsers
  decoding       \* a token string and what decodeToken made of it

\* The state of the route guards, of the lib clients, of the dashboard and
\* of the token decoder.
otherVars == <<view, edubot, listeners, fetchReq, libLast, dash, decoding>>

vars == <<now, localStorage, pathname, user, isLoading, r, nOps, last,
          view, edubot, listeners, fetchReq, libLast, loggedOut, dash,
          decoding>>

\* ------------------------------------------------------------ tokenStorage
clearAll(ls) == [auth_token |-> NoToken, refresh_token |-> NoToken]

setToken_firstWins(ls, t) ==
  IF ls.auth_token = NoToken \/ ls.auth_token.via = "page"
    THEN [ls EXCEPT !.auth_token = t] ELSE ls

setToken(ls, t) == [ls EXCEPT !.auth_token = t]

setRefreshToken(ls, t) == [ls EXCEPT !.refresh_token = t]

\* --------------------------------------------------------- token decoding
\* decodeToken: the payload's claims, or null (here: Absent) when split,
\* atob or JSON.parse fails.
decodeToken(t) == IF t.kind = "jwt" THEN [exp |-> t.exp] ELSE Absent

\* isTokenExpired of the axios client: true when the token does not decode
\* or has no exp, else exp < currentTime.
isTokenExpired(t, time) ==
  LET decoded == decodeToken(t) IN
  IF decoded = Absent THEN TRUE
  ELSE IF decoded.exp = 0 THEN TRUE
  ELSE decoded.exp < time

AuthService_isAuthenticated_strict(t, time) ==
  IF t = NoToken THEN FALSE
  ELSE IF decodeToken(t) # Absent THEN decodeToken(t).exp > time
  ELSE FALSE

\* AuthService.isAuthenticated: no token -> false; dummy_token_for_ -> true;
\* decodable -> exp > currentTime; not decodable -> true (the catch).
AuthService_isAuthenticated(t, time) ==
  IF t = NoToken THEN FALSE
  ELSE IF t.kind = "dummy" THEN TRUE
  ELSE IF decodeToken(t) # Absent THEN decodeToken(t).exp > time
  ELSE TRUE

\* AuthProvider: const isAuthenticated = AuthService.isAuthenticated() && user !== null
\* (the value a render in the current state computes).
isAuthenticated ==
  AuthService_isAuthenticated(localStorage.auth_token, now) /\ user # NoUser


\* ------------------------------------------------------ requests in flight
\* The request of an operation: st is its place ("idle", "start" for the
\* provider's mount effect before it ran, "sent", "refreshing" while the
\* POST /auth/refresh of the response interceptor is in flight, "resent"
\* after the retry); phase "main" is the operation's own call, "cleanup" the
\* AuthService.logout() call of a catch block; hdr is config.headers.
\* Authorization; retry is originalRequest._retry.  The remaining fields are
\* history: for login, what the store held when login() was called (pre);
\* how the client judged the stored tokens when the call was sent; the
\* sends, refresh attempts and assignments of window.location.href made
\* for this original request; the access token a refresh returned; for
\* login, the message the server's last answer to the call carried (msg)
\* and the message of the error login() threw (err).
IdleReq ==
  [st |-> "idle", phase |-> "main", hdr |-> NoToken, retry |-> FALSE,
   pre |-> clearAll(NoToken), preExpired |-> FALSE, preRefresh |-> "absent",
   nSend |-> 0, nRefresh |-> 0, nRedir |-> 0, fresh |-> NoToken,
   msg |-> "", err |-> ""]

\* Endpoints that answer 2xx only to a request carrying a bearer token:
\* GET /api/auth/me (init, refreshUser) and GET /api/auth/users (api).
Protected(p, phase) == phase = "main" /\ p \in {"init", "refreshUser", "api"}

\* What the server may answer to the request of p: a protected endpoint
\* answers 200 only when the request carries an Authorization header.
ServerAnswers(p) ==
  IF Protected(p, r[p].phase) /\ r[p].hdr = NoToken
    THEN Statuses \ {200}
    ELSE Statuses

\* The bodies a successful POST /api/auth/login may carry: the simple format
\* {user, token} or the original format {access_token, refresh_token?,
\* user_info}.
LoginBodies ==
  { [user |-> u, token |-> Tok("dummy", 0, "login"), access_token |-> Absent,
     refresh_token |-> Absent, user_info |-> Absent] : u \in Users }
  \cup
  { [user |-> Absent, token |-> Absent,
     access_token |-> Tok("jwt", FreshExp, "login"),
     refresh_token |-> rt, user_info |-> u] :
       u \in Users, rt \in {Absent, Tok("jwt", FreshExp, "login")} }

\* The bodies a successful POST /auth/refresh may carry.
RefreshBodies ==
  { [access_token |-> Tok("jwt", FreshExp, "refresh"), refresh_token |-> rt] :
      rt \in {Absent, Tok("jwt", FreshExp, "refresh")} }

\* ------------------------------------------------------------ interceptors
\* The request interceptor, run on configuration headers hdr0: a stored
\* token judged live is attached; a stored token judged expired clears the
\* store and assigns window.location.href unless the page is /login.
requestInterceptor(ls, hdr0, time, path) ==
  LET token == ls.auth_token IN
  IF token # NoToken /\ ~isTokenExpired(token, time)
    THEN [ls |-> ls, hdr |-> token, redir |-> 0]
  ELSE IF token # NoToken /\ isTokenExpired(token, time)
    THEN [ls |-> clearAll(ls), hdr |-> hdr0,
          redir |-> IF path # "/login" THEN 1 ELSE 0]
  ELSE [ls |-> ls, hdr |-> hdr0, redir |-> 0]

ShouldRefresh_noRetryFlag(status, retry) == status = 401

\* error.response?.status === 401 && !originalRequest._retry
ShouldRefresh(status, retry) == status = 401 /\ ~retry

\* refreshToken && !isTokenExpired(refreshToken)
HasValidRefresh(ls, time) ==
  ls.refresh_token # NoToken /\ ~isTokenExpired(ls.refresh_token, time)

\* How the client judges the stored refresh token.
RefreshJudged(ls, time) ==
  IF ls.refresh_token = NoToken THEN "absent"
  ELSE IF isTokenExpired(ls.refresh_token, time) THEN "invalid"
  ELSE "valid"

\* instance.request(config) up to the point the request is on the wire:
\* the record of the new original request of an operation.
Sent(p, phase, ls, time, path) ==
  LET ri == requestInterceptor(ls, NoToken, time, path) IN
  [st |-> "sent", phase |-> phase, hdr |-> ri.hdr, retry |-> FALSE,
   pre |-> IF p = "login" THEN ls ELSE clearAll(ls),
   preExpired |-> (ls.auth_token # NoToken /\ isTokenExpired(ls.auth_token, time)),
   preRefresh |-> RefreshJudged(ls, time),
   nSend |-> 1, nRefresh |-> 0, nRedir |-> ri.redir, fresh |-> NoToken,
   msg |-> "", err |-> ""]


\* ------------------------------------------------------------- AuthService
\* AuthService.login, the storing of a 2xx body: the simple format stores
\* the token only; the original format stores access_token and, when the
\* body has one, refresh_token.
LoginStore(ls, data) ==
  IF data.user # Absent /\ data.token # Absent
    THEN setToken(ls, data.token)
    ELSE LET ls1 == setToken(ls, data.access_token) IN
         IF data.refresh_token # Absent
           THEN setRefreshToken(ls1, data.refresh_token)
           ELSE ls1

LoginUser_noRole(data) ==
  IF data.user # Absent /\ data.token # Absent
    THEN [id |-> data.user.id, email |-> data.user.email, role |-> "none"]
    ELSE [id |-> data.user_info.id, email |-> data.user_info.email,
          role |-> data.user_info.role]

\* AuthService.login, transformedResponse.user (id, email, role).
LoginUser(data) ==
  IF data.user # Absent /\ data.token # Absent
    THEN [id |-> data.user.id, email |-> data.user.email,
          role |-> data.user.role]
    ELSE [id |-> data.user_info.id, email |-> data.user_info.email,
          role |-> data.user_info.role]

LogoutStore_onSuccessOnly(ls, status) ==
  IF status = 200 THEN clearAll(ls) ELSE ls

\* AuthService.logout: try { post } catch { } finally { tokenStorage.clearAll() }
LogoutStore(ls, status) == clearAll(ls)

CatchUser_keep(p, u) == u

\* The catch blocks of initializeAuth and refreshUser before they await
\* AuthService.logout(): refreshUser calls setUser(null), initializeAuth
\* leaves the user as it is.
CatchUser(p, u) == IF p = "refreshUser" THEN NoUser ELSE u

\* error.response.data of a failed call: no response or no message in it
\* (Absent), or a body with a message.  Only login() reads the message.
ErrorData(p, status, message) ==
  IF p = "login" /\ status # 0 THEN {Absent, [message |-> message]}
  ELSE {Absent}

\* The message error.response.data carries, "" when it carries none.
ServerMessage(data) == IF data = Absent THEN "" ELSE data.message


\* AuthService.login, the catch:
\* new Error(apiError.response?.data?.message || 'Login failed')
LoginError(data) ==
  IF data # Absent /\ data.message # "" THEN data.message ELSE "Login failed"

\* The user object of a login body as the server sent it.
ServerUser(data) == IF data.user # Absent THEN data.user ELSE data.user_info

\* ----------------------------------------------------------------- history
Last(p, ev, status, u, q) ==
  [p |-> p, ev |-> ev, status |-> status, user |-> u, req |-> q]

\* ------------------------------------------------------------ route guards
Roles == {"admin", "teacher", "student"}

\* The role of no user (null), and a prop that was not passed (undefined).
NoRole == "none"

NotPassed == "undefined"

\* The values of the allowedRoles prop: an array of roles, or not passed.
AllowedRoles == { [roles |-> S] : S \in SUBSET Roles } \cup {Absent}

\* useRole: role = user?.role || null
useRole(u) == IF u = NoUser THEN NoRole ELSE u.role

ProtectedRoute_ignoresAllowedRoles(loading, authed, role, requiredRole, allowedRoles) ==
  IF loading THEN "ShowLoading"
  ELSE IF ~authed THEN "RedirectToLogin"
  ELSE IF requiredRole # NotPassed /\ role # requiredRole
    THEN "RedirectToUnauthorized"
  ELSE "Render"

\* ProtectedRoute: the spinner while loading, Navigate to /login when not
\* authenticated, Navigate to /unauthorized when requiredRole is given and
\* differs from the role or allowedRoles is given and does not include the
\* role, else the children.
ProtectedRoute(loading, authed, role, requiredRole, allowedRoles) ==
  IF loading THEN "ShowLoading"
  ELSE IF ~authed THEN "RedirectToLogin"
  ELSE IF requiredRole # NotPassed /\ role # requiredRole
    THEN "RedirectToUnauthorized"
  ELSE IF allowedRoles # Absent /\ role \notin allowedRoles.roles
    THEN "RedirectToUnauthorized"
  ELSE "Render"

\* <ProtectedRoute requiredRole="admin">
AdminRoute(loading, authed, role) ==
  ProtectedRoute(loading, authed, role, "admin", Absent)

\* <ProtectedRoute allowedRoles={['admin', 'teacher']}>
TeacherRoute(loading, authed, role) ==
  ProtectedRoute(loading, authed, role, NotPassed, [roles |-> {"admin", "teacher"}])

StudentRoute_studentsOnly(loading, authed, role) ==
  ProtectedRoute(loading, authed, role, NotPassed, [roles |-> {"student"}])

\* <ProtectedRoute allowedRoles={['admin', 'teacher', 'student']}>
StudentRoute(loading, authed, role) ==
  ProtectedRoute(loading, authed, role, NotPassed,
                 [roles |-> {"admin", "teacher", "student"}])

PublicRoute_always(loading, authed, role) ==
  IF loading THEN "ShowLoading" ELSE "Render"

\* PublicRoute: the spinner while loading, Navigate to the dashboard of the
\* role when authenticated, else the children.
PublicRoute(loading, authed, role) ==
  IF loading THEN "ShowLoading"
  ELSE IF authed
    THEN IF role = "admin" THEN "Navigate:/admin"
         ELSE IF role = "teacher" THEN "Navigate:/teacher"
         ELSE "Navigate:/student"
  ELSE "Render"

\* The guarded routes of App.
GuardedPaths == {"/", "/forgot-password", "/admin", "/teacher", "/student"}

\* What the element of a route of App returns in the current state.
RouteElement(path) ==
  LET role == useRole(user) IN
  IF path = "/admin" THEN AdminRoute(isLoading, isAuthenticated, role)
  ELSE IF path = "/teacher" THEN TeacherRoute(isLoading, isAuthenticated, role)
  ELSE IF path = "/student" THEN StudentRoute(isLoading, isAuthenticated, role)
  ELSE PublicRoute(isLoading, isAuthenticated, role)

NoView ==
  [route |-> "none", requiredRole |-> NotPassed, allowedRoles |-> Absent,
   decision |-> "none"]

\* --------------------------------------------- lib/auth.ts: TokenStorage
\* Bounds of the lib clients: at most MaxListeners subscriptions at a time.
MaxListeners == 2

\* The access tokens and the profile the server hands out to the lib client.
LibTokens == { [tok |-> "t1"], [tok |-> "t2"] }

LibProfiles == { [id |-> "1", email |-> "admin@school.com"] }

\* A JavaScript number.
Num(n) == [num |-> n]

NaN == [nan |-> TRUE]

\* expires_in of an AuthResponse, in seconds; Absent: the body has none.
ExpiresIn == {Num(0), Num(1), Num(MaxTime), Absent}

AuthResponses ==
  { [access_token |-> t, expires_in |-> e, user |-> u] :
      t \in LibTokens, e \in ExpiresIn, u \in LibProfiles }

\* STORAGE_KEYS: the four edubot_* keys, none of them set.
EmptyEdubot ==
  [access_token |-> Absent, refresh_token |-> Absent,
   user_profile |-> Absent, token_expiry |-> Absent]

\* Date.now(), milliseconds, at second time.
DateNow(time) == time * 1000

\* Number.prototype.toString and parseInt(_, 10) on the values stored under
\* edubot_token_expiry: the decimal digits of an integer number of
\* milliseconds, or the string NaN, which parses to NaN again.
toString(n) == [str |-> n]

parseInt(str) == str.str

\* JavaScript truthiness of a number or null.
Truthy(n) == n # Absent /\ n # NaN /\ n # Num(0)

\* TokenStorage.setTokens
TokenStorage_setTokens(eb, authResponse, time) ==
  LET expiryTime == IF authResponse.expires_in = Absent THEN NaN
                    ELSE Num(DateNow(time) + authResponse.expires_in.num * 1000)
  IN [eb EXCEPT !.access_token = authResponse.access_token,
                !.token_expiry = toString(expiryTime),
                !.user_profile = [json |-> authResponse.user]]

\* TokenStorage.getAccessToken
getAccessToken(eb) == eb.access_token

\* TokenStorage.getUserProfile
getUserProfile(eb) ==
  IF eb.user_profile # Absent THEN eb.user_profile.json ELSE Absent

\* TokenStorage.getTokenExpiry
getTokenExpiry(eb) ==
  IF eb.token_expiry # Absent THEN parseInt(eb.token_expiry) ELSE Absent

TokenStorage_isTokenExpired_defaultFalse(eb, time) ==
  IF Truthy(getTokenExpiry(eb))
    THEN DateNow(time) >= getTokenExpiry(eb).num ELSE FALSE

\* TokenStorage.isTokenExpired: expiry ? Date.now() >= expiry : true
TokenStorage_isTokenExpired(eb, time) ==
  LET expiry == getTokenExpiry(eb) IN
  IF Truthy(expiry) THEN DateNow(time) >= expiry.num ELSE TRUE

TokenStorage_clearTokens_keepsExpiry(eb) ==
  [eb EXCEPT !.access_token = Absent, !.refresh_token = Absent,
             !.user_profile = Absent]

TokenStorage_clearTokens_keepsProfile(eb) ==
  [eb EXCEPT !.access_token = Absent, !.refresh_token = Absent,
             !.token_expiry = Absent]

\* TokenStorage.clearTokens
TokenStorage_clearTokens(eb) ==
  [eb EXCEPT !.access_token = Absent, !.refresh_token = Absent,
             !.user_profile = Absent, !.token_expiry = Absent]

\* TokenStorage.hasValidToken
hasValidToken(eb, time) ==
  getAccessToken(eb) # Absent /\ ~TokenStorage_isTokenExpired(eb, time)

getAuthHeader_none(eb) == Absent

\* lib AuthService.getAuthHeader: the stored token, or no header.
getAuthHeader(eb) ==
  IF getAccessToken(eb) # Absent THEN getAccessToken(eb) ELSE Absent

\* ---------------------------------------------- lib/auth.ts: AuthService
\* The callbacks the application may subscribe.
Callbacks == {"a", "b"}

\* The unsubscribe function addListener(callback) returns:
\* this.listeners = this.listeners.filter(listener => listener !== callback)
Unsubscribed(ls, callback) == SelectSeq(ls, LAMBDA listener : listener # callback)

notifyListeners_firstOnly(ls) == IF ls = <<>> THEN <<>> ELSE <<Head(ls)>>

\* notifyListeners: this.listeners.forEach(listener => listener(value)).
\* forEach walks the array object it was called on, so every callback in
\* the array at the time of the call is called, in order, also when a
\* callback replaces this.listeners meanwhile.  The result is the sequence
\* of callbacks called.
notifyListeners(ls) == ls

\* -------------------------------------------------------- the fetch clients
Undefined == [undefined |-> TRUE]

\* The statuses a server answers the fetch clients with.
LibStatuses == {200, 401, 408, 500}

\* The text the ApiClient gives its timeout error.
RequestTimeout == [text |-> "Request timeout"]

\* The body of a non-2xx answer: not JSON (Absent), or an object with a
\* detail, a message, or both (ErrorResponse: detail, message?).
ErrorBodies ==
  { Absent,
    [detail |-> RequestTimeout],
    [message |-> [text |-> "Invalid credentials"]],
    [detail |-> [text |-> ""]],
    [detail |-> [text |-> ""], message |-> [text |-> "Invalid credentials"]] }

\* class ApiError: name, message, status, response
ApiError(message, status, response) ==
  [name |-> "ApiError", message |-> message, status |-> status,
   response |-> response]

\* ApiClient.request, a non-2xx response: the error thrown.  The message is
\* the detail or the message of the JSON body, or HTTP <status>: <statusText>
\* when the body has neither, has an empty one, or is not JSON.
HttpError(status, errorData) ==
  LET errorMessage == [http |-> status]
      message ==
        IF errorData # Absent /\ "detail" \in DOMAIN errorData
          THEN IF errorData.detail.text # "" THEN errorData.detail
               ELSE errorMessage
        ELSE IF errorData # Absent /\ "message" \in DOMAIN errorData
          THEN IF errorData.message.text # "" THEN errorData.message
               ELSE errorMessage
        ELSE errorMessage
  IN ApiError(message, status, errorData)

\* ApiClient.request, the catch: any other Error -> ApiError(error.message, 0)
NetworkError == ApiError([text |-> "Failed to fetch"], 0, Undefined)

\* ApiClient.request, the catch: AbortError -> ApiError('Request timeout', 408)
TimeoutError == ApiError(RequestTimeout, 408, Undefined)

IdleFetch ==
  [st |-> "idle", client |-> "none", hdr |-> Absent, stored |-> Absent,
   valid |-> FALSE]

\* What a step of the lib clients did: the operation, the status answered,
\* the value notified, this.listeners before the step, the callbacks called
\* in order, the callback that was unsubscribed from within the first
\* callback called, the auth:unauthorized events dispatched, the error
\* thrown, the request, the expires_in of the argument of setAuthData, the
\* time of the step, and whether any edubot_* key was set before it.
LibStep(ev, status, value, before, delivered, unsub, events, error, req, arg) ==
  [ev |-> ev, status |-> status, value |-> value, before |-> before,
   delivered |-> delivered, unsub |-> unsub, events |-> events,
   error |-> error, req |-> req, arg |-> arg, at |-> now,
   held |-> (edubot # EmptyEdubot)]

\* No callback.
NoCallback == "none"

NoLibStep ==
  [ev |-> "none", status |-> 0, value |-> FALSE, before |-> <<>>,
   delivered |-> <<>>, unsub |-> NoCallback, events |-> 0, error |-> Absent,
   req |-> IdleFetch, arg |-> Absent, at |-> 0, held |-> FALSE]

\* ----------------------------------------------------- the other components
\* At most MaxLoads calls of AdminDashboard.loadUsers.
MaxLoads == 2

\* The value of a list of users: useState([]) is list 0, the lists the
\* server returns to the k-th call of loadUsers are list k.
List(k) == [list |-> k]

\* A call of loadUsers: not made ("none"), awaiting Promise.all, or done;
\* and its three fetches (getAllUsers, getUsersByRole student and teacher),
\* each not made, pending, failed or fulfilled with a list.
NotFetched == [fetch |-> "none"]

Pending == [fetch |-> "pending"]

Failed == [fetch |-> "failed"]

IdleLoad == [st |-> "none", fetch |-> <<NotFetched, NotFetched, NotFetched>>]

\* AdminDashboard before loadUsers ran: the lists are useState([]), the
\* loading flag useState(false), the error useState(null).  ev, k and
\* before are history: what the last step did, for which call, and the
\* three lists before it.
DashIdle ==
  [loads |-> [k \in 1 .. MaxLoads |-> IdleLoad],
   users |-> List(0), students |-> List(0), teachers |-> List(0),
   isLoading |-> FALSE, error |-> "null",
   ev |-> "none", k |-> 0, before |-> <<List(0), List(0), List(0)>>]

\* No token string was handed to decodeToken.
NoDecode ==
  [token |-> <<>>, st |-> "none", result |-> Absent, threw |-> FALSE,
   expired |-> FALSE]

\* Nothing but the component under study is active.
Elsewhere ==
  /\ loggedOut = FALSE
  /\ dash = DashIdle
  /\ decoding = NoDecode

\* The lib clients before anything was stored, subscribed or sent.
LibIdle ==
  /\ edubot = EmptyEdubot
  /\ listeners = <<>>
  /\ fetchReq = IdleFetch
  /\ libLast = NoLibStep

\* -------------------------------------------------------------------- Init
\* What an earlier page may have left in localStorage: nothing; a JWT pair
\* (the access token short-lived or long-lived); a JWT access token alone;
\* a non-JWT access token alone; a JWT access token with a refresh token
\* that is not a JWT.
InitStores ==
  { [auth_token |-> NoToken, refresh_token |-> NoToken],
    [auth_token |-> Tok("jwt", 1, "page"), refresh_token |-> Tok("jwt", MaxTime, "page")],
    [auth_token |-> Tok("jwt", MaxTime, "page"), refresh_token |-> Tok("jwt", MaxTime, "page")],
    [auth_token |-> Tok("jwt", 1, "page"), refresh_token |-> NoToken],
    [auth_token |-> Tok("opaque", 0, "page"), refresh_token |-> NoToken],
    [auth_token |-> Tok("jwt", 1, "page"), refresh_token |-> Tok("opaque", 0, "page")] }

\* The page has just been loaded: localStorage holds whatever an earlier
\* page left, AuthProvider holds useState(null) and useState(true), and the
\* mount effect has not run yet.
Init ==
  /\ now = 1
  /\ localStorage \in InitStores
  /\ pathname = "/"
  /\ user = NoUser
  /\ isLoading = TRUE
  /\ r = [p \in Procs |-> IF p = "init" THEN [IdleReq EXCEPT !.st = "start"]
                          ELSE IdleReq]
  /\ nOps = 0
  /\ last = Last("none", "none", 0, NoUser, IdleReq)
  /\ view = NoView
  /\ LibIdle
  /\ Elsewhere


\* ----------------------------------------------------- starting operations
\* An operation sends its call: the request interceptor runs, the request
\* goes on the wire.
Issue(p, phase, ls) ==
  /\ localStorage' = requestInterceptor(ls, NoToken, now, pathname).ls
  /\ r' = [r EXCEPT ![p] = Sent(p, phase, ls, now, pathname)]

Mounted == r["init"].st # "start"

CanStart(p) == Mounted /\ r[p].st = "idle" /\ nOps < MaxOps

\* The mount effect of AuthProvider: initializeAuth up to its first await,
\* or to its end when AuthService.isAuthenticated() is false.
Mount ==
  /\ r["init"].st = "start"
  /\ IF AuthService_isAuthenticated(localStorage.auth_token, now)
       THEN /\ Issue("init", "main", localStorage)
            /\ isLoading' = isLoading
            /\ last' = Last("init", "send", 0, NoUser, r'["init"])
       ELSE /\ r' = [r EXCEPT !["init"] = IdleReq]
            /\ isLoading' = FALSE
            /\ localStorage' = localStorage
            /\ last' = Last("init", "skip", 0, NoUser, IdleReq)
  /\ UNCHANGED <<now, pathname, user, nOps, loggedOut>>
  /\ UNCHANGED otherVars

\* AuthProvider.login up to the await of AuthService.login.
StartLogin ==
  /\ CanStart("login")
  /\ isLoading' = TRUE
  /\ Issue("login", "main", localStorage)
  /\ nOps' = nOps + 1
  /\ last' = Last("login", "send", 0, NoUser, r'["login"])
  /\ UNCHANGED <<now, pathname, user, loggedOut>>
  /\ UNCHANGED otherVars

\* AuthProvider.logout up to the await of AuthService.logout.
StartLogout ==
  /\ CanStart("logout")
  /\ isLoading' = TRUE
  /\ Issue("logout", "main", localStorage)
  /\ nOps' = nOps + 1
  /\ last' = Last("logout", "send", 0, NoUser, r'["logout"])
  /\ UNCHANGED <<now, pathname, user, loggedOut>>
  /\ UNCHANGED otherVars

\* AuthProvider.refreshUser up to its first await, or to its end when
\* AuthService.isAuthenticated() is false.
StartRefreshUser ==
  /\ CanStart("refreshUser")
  /\ IF AuthService_isAuthenticated(localStorage.auth_token, now)
       THEN /\ Issue("refreshUser", "main", localStorage)
            /\ user' = user
            /\ last' = Last("refreshUser", "send", 0, NoUser, r'["refreshUser"])
       ELSE /\ user' = NoUser
            /\ UNCHANGED <<localStorage, r>>
            /\ last' = Last("refreshUser", "skip", 0, NoUser, IdleReq)
  /\ nOps' = nOps + 1
  /\ UNCHANGED <<now, pathname, isLoading, loggedOut>>
  /\ UNCHANGED otherVars

\* A dashboard call through the instance, AuthService.getAllUsers.
StartApi ==
  /\ CanStart("api")
  /\ Issue("api", "main", localStorage)
  /\ nOps' = nOps + 1
  /\ last' = Last("api", "send", 0, NoUser, r'["api"])
  /\ UNCHANGED <<now, pathname, user, isLoading, loggedOut>>
  /\ UNCHANGED otherVars

\* -------------------------------------------------- settling an operation
\* The promise of the call of p settles (ok: fulfilled with body; otherwise
\* rejected) with the store at ls and the request at q; the operation runs
\* on from its await to its next await or to its end.
\* The finally blocks of initializeAuth, login and logout:
\* setIsLoading(false), whether the try block ended normally (ok) or not;
\* refreshUser has no finally and leaves isLoading alone.
FinallyLoading(p, ok, loading) ==
  IF p \in {"init", "login", "logout"} THEN FALSE ELSE loading

Complete(p, ok, status, body, ls, q) ==
  IF q.phase = "cleanup"
    THEN \* init / refreshUser: the awaited AuthService.logout() returns
      /\ localStorage' = LogoutStore(ls, status)
      /\ user' = user
      /\ isLoading' = FinallyLoading(p, FALSE, isLoading)
      /\ r' = [r EXCEPT ![p] = IdleReq]
      /\ loggedOut' = loggedOut
      /\ last' = Last(p, "cleaned", status, NoUser, q)
  ELSE IF p = "login"
    THEN /\ localStorage' = IF ok THEN LoginStore(ls, body) ELSE ls
         /\ user' = IF ok THEN LoginUser(body) ELSE NoUser
         /\ isLoading' = FinallyLoading(p, ok, isLoading)
         /\ r' = [r EXCEPT ![p] = IdleReq]
         /\ loggedOut' = IF ok THEN FALSE ELSE loggedOut
         /\ last' = Last(p, IF ok THEN "ok" ELSE "fail", status,
                         IF ok THEN ServerUser(body) ELSE NoUser,
                         IF ok THEN q ELSE [q EXCEPT !.err = LoginError(body)])
  ELSE IF p = "logout"
    THEN /\ localStorage' = LogoutStore(ls, status)
         /\ user' = NoUser
         /\ isLoading' = FinallyLoading(p, ok, isLoading)
         /\ r' = [r EXCEPT ![p] = IdleReq]
         /\ loggedOut' = TRUE
         /\ last' = Last(p, IF ok THEN "ok" ELSE "fail", status, NoUser, q)
  ELSE IF p = "api"
    THEN /\ localStorage' = ls
         /\ UNCHANGED <<user, isLoading, loggedOut>>
         /\ r' = [r EXCEPT ![p] = IdleReq]
         /\ last' = Last(p, IF ok THEN "ok" ELSE "fail", status, NoUser, q)
  ELSE IF ok
    THEN \* init / refreshUser: setUser(currentUser)
      /\ localStorage' = ls
      /\ user' = body
      /\ isLoading' = FinallyLoading(p, TRUE, isLoading)
      /\ r' = [r EXCEPT ![p] = IdleReq]
      /\ loggedOut' = loggedOut
      /\ last' = Last(p, "ok", status, body, q)
  ELSE \* init / refreshUser: the catch block, up to await AuthService.logout()
      /\ Issue(p, "cleanup", ls)
      /\ user' = CatchUser(p, user)
      /\ isLoading' = isLoading
      /\ loggedOut' = loggedOut
      /\ last' = Last(p, "fetchFail", status, NoUser, q)

\* The bodies a 2xx answer to the request of p may carry.
Bodies(p) ==
  IF r[p].phase = "cleanup" THEN {Absent}
  ELSE IF p = "login" THEN LoginBodies
  ELSE IF p \in {"init", "refreshUser"} THEN Users
  ELSE {Absent}

\* The server answers the request of p with a 2xx status.
RespondOk(p) ==
  /\ r[p].st \in {"sent", "resent"}
  /\ 200 \in ServerAnswers(p)
  /\ \E body \in Bodies(p) :
       Complete(p, TRUE, 200, body, localStorage, r[p])
  /\ UNCHANGED <<now, pathname, nOps>>
  /\ UNCHANGED otherVars

\* The request of p fails (a non-2xx status, or no response): the response
\* interceptor's error handler runs.
RespondError(p, status) ==
  /\ r[p].st \in {"sent", "resent"}
  /\ status \in ServerAnswers(p) \ {200}
  /\ \E data \in ErrorData(p, status, "Invalid credentials") :
       LET q == [r[p] EXCEPT !.msg = ServerMessage(data)] IN
       IF ShouldRefresh(status, q.retry)
         THEN IF HasValidRefresh(localStorage, now)
                THEN \* await axios.post(/auth/refresh)
                  /\ r' = [r EXCEPT ![p] = [q EXCEPT !.retry = TRUE,
                                                     !.st = "refreshing",
                                                     !.nRefresh = @ + 1]]
                  /\ last' = Last(p, "refreshing", status, NoUser, r'[p])
                  /\ UNCHANGED <<localStorage, user, isLoading, loggedOut>>
                ELSE \* clearAll, location.href = '/login', reject(error)
                  Complete(p, FALSE, status, data, clearAll(localStorage),
                           [q EXCEPT !.retry = TRUE, !.nRedir = @ + 1])
         ELSE Complete(p, FALSE, status, data, localStorage, q)
  /\ UNCHANGED <<now, pathname, nOps>>
  /\ UNCHANGED otherVars

\* POST /auth/refresh succeeds: the tokens are stored and the original
\* request is sent again through the instance (its request interceptor
\* runs again).
RefreshOk(p) ==
  /\ r[p].st = "refreshing"
  /\ \E body \in RefreshBodies :
       LET ls1 == setToken(localStorage, body.access_token)
           ls2 == IF body.refresh_token # Absent
                    THEN setRefreshToken(ls1, body.refresh_token)
                    ELSE ls1
           ri  == requestInterceptor(ls2, body.access_token, now, pathname)
       IN /\ localStorage' = ri.ls
          /\ r' = [r EXCEPT ![p] = [@ EXCEPT !.st = "resent",
                                             !.hdr = ri.hdr,
                                             !.nSend = @ + 1,
                                             !.nRedir = @ + ri.redir,
                                             !.fresh = body.access_token]]
          /\ last' = Last(p, "resent", 200, NoUser, r'[p])
  /\ UNCHANGED <<now, pathname, user, isLoading, nOps, loggedOut>>
  /\ UNCHANGED otherVars

\* POST /auth/refresh fails: clearAll, location.href = '/login',
\* reject(refreshError).
RefreshError(p, status) ==
  /\ r[p].st = "refreshing"
  /\ status \in Statuses \ {200}
  /\ \E data \in ErrorData(p, status, "Invalid refresh token") :
       Complete(p, FALSE, status, data, clearAll(localStorage),
                [r[p] EXCEPT !.nRedir = @ + 1])
  /\ UNCHANGED <<now, pathname, nOps>>
  /\ UNCHANGED otherVars

\* Time passes.
Tick ==
  /\ now < MaxTime
  /\ now' = now + 1
  /\ last' = Last("none", "tick", 0, NoUser, IdleReq)
  /\ UNCHANGED <<localStorage, pathname, user, isLoading, r, nOps, loggedOut>>
  /\ UNCHANGED otherVars

Next ==
  \/ Mount
  \/ StartLogin
  \/ StartLogout
  \/ StartRefreshUser
  \/ StartApi
  \/ \E p \in Procs : RespondOk(p)
  \/ \E p \in Procs, status \in Statuses : RespondError(p, status)
  \/ \E p \in Procs : RefreshOk(p)
  \/ \E p \in Procs, status \in Statuses : RefreshError(p, status)
  \/ Tick

Spec == Init /\ [][Next]_vars

\* A request in flight settles: the server answers it, or the instance's
\* timeout of 10000 ms (or the network) ends it with no response; the same
\* for the POST /auth/refresh awaited by the response interceptor.
Settle(p) ==
  \/ RespondOk(p)
  \/ \E status \in Statuses : RespondError(p, status)
  \/ RefreshOk(p)
  \/ \E status \in Statuses : RefreshError(p, status)

\* AuthProvider's mount effect runs once the provider is rendered, and no
\* request stays in flight forever.
Fairness ==
  /\ WF_vars(Mount)
  /\ \A p \in Procs : WF_vars(Settle(p))

SpecLive == Spec /\ Fairness


\* ============================================================ route guards
\* The states of AuthProvider a route element may be rendered in: any
\* stored tokens (left by an earlier page, or written by a login), any
\* user or none, loading or not.
GuardStores ==
  InitStores \cup
  { [auth_token |-> Tok("dummy", 0, "login"), refresh_token |-> NoToken],
    [auth_token |-> Tok("jwt", FreshExp, "login"),
     refresh_token |-> Tok("jwt", FreshExp, "login")] }

InitGuard ==
  /\ now \in 1 .. MaxTime
  /\ localStorage \in GuardStores
  /\ pathname = "/"
  /\ user \in Users \cup {NoUser}
  /\ isLoading \in BOOLEAN
  /\ r = [p \in Procs |-> IdleReq]
  /\ nOps = 0
  /\ last = Last("none", "none", 0, NoUser, IdleReq)
  /\ view = NoView
  /\ LibIdle
  /\ Elsewhere

\* A <ProtectedRoute requiredRole allowedRoles> element is rendered.
RenderProtected(requiredRole, allowedRoles) ==
  /\ view' = [route |-> "ProtectedRoute", requiredRole |-> requiredRole,
              allowedRoles |-> allowedRoles,
              decision |-> ProtectedRoute(isLoading, isAuthenticated,
                                          useRole(user), requiredRole,
                                          allowedRoles)]
  /\ UNCHANGED <<now, localStorage, pathname, user, isLoading, r, nOps, last>>
  /\ UNCHANGED <<edubot, listeners, fetchReq, libLast, loggedOut, dash, decoding>>

\* The element of a guarded route of App is rendered.
RenderRoute(path) ==
  /\ view' = [route |-> path, requiredRole |-> NotPassed,
              allowedRoles |-> Absent, decision |-> RouteElement(path)]
  /\ UNCHANGED <<now, localStorage, pathname, user, isLoading, r, nOps, last>>
  /\ UNCHANGED <<edubot, listeners, fetchReq, libLast, loggedOut, dash, decoding>>

NextGuard ==
  \/ \E requiredRole \in Roles \cup {NotPassed}, allowedRoles \in AllowedRoles :
       RenderProtected(requiredRole, allowedRoles)
  \/ \E path \in GuardedPaths : RenderRoute(path)

SpecGuard == InitGuard /\ [][NextGuard]_vars


\* ============================================================= lib clients
\* The state outside the lib clients and the route guards: AuthProvider,
\* the axios client, the dashboard and the token decoder.
authVars == <<now, localStorage, pathname, user, isLoading, r, nOps, last,
              loggedOut, dash, decoding>>

\* What an earlier page may have left under the edubot_* keys: nothing, or
\* what a setTokens of that page (at second 0) wrote.
InitEdubot ==
  {EmptyEdubot} \cup
  { TokenStorage_setTokens(EmptyEdubot, authResponse, 0) :
      authResponse \in AuthResponses }

\* The lib clients on a page that does not use the axios client.
InitLib ==
  /\ now = 1
  /\ localStorage = clearAll(localStorage)
  /\ pathname = "/"
  /\ user = NoUser
  /\ isLoading = FALSE
  /\ r = [p \in Procs |-> IdleReq]
  /\ nOps = 0
  /\ last = Last("none", "none", 0, NoUser, IdleReq)
  /\ view = NoView
  /\ edubot \in InitEdubot
  /\ listeners = <<>>
  /\ fetchReq = IdleFetch
  /\ libLast = NoLibStep
  /\ Elsewhere

\* What the callbacks may do while they are called: the first callback
\* called may call the unsubscribe function of a subscribed callback
\* (its own or another's).
Reentrant(ls) ==
  {NoCallback} \cup { callback \in Callbacks :
                        \E i \in 1 .. Len(ls) : ls[i] = callback }

\* this.listeners after notifyListeners ran with the first callback
\* unsubscribing unsub.
AfterNotify(ls, unsub) ==
  IF unsub = NoCallback THEN ls ELSE Unsubscribed(ls, unsub)

\* lib AuthService.setAuthData(authResponse)
SetAuthData(authResponse) ==
  /\ edubot' = TokenStorage_setTokens(edubot, authResponse, now)
  /\ \E unsub \in Reentrant(listeners) :
       /\ listeners' = AfterNotify(listeners, unsub)
       /\ libLast' = LibStep("setAuthData", 0, TRUE, listeners,
                             notifyListeners(listeners), unsub, 0, Absent,
                             fetchReq, authResponse.expires_in)
  /\ UNCHANGED <<authVars, view, fetchReq>>

\* lib AuthService.logout()
LibLogout ==
  /\ edubot' = TokenStorage_clearTokens(edubot)
  /\ \E unsub \in Reentrant(listeners) :
       /\ listeners' = AfterNotify(listeners, unsub)
       /\ libLast' = LibStep("logout", 0, FALSE, listeners,
                             notifyListeners(listeners), unsub, 0, Absent,
                             fetchReq, Absent)
  /\ UNCHANGED <<authVars, view, fetchReq>>

\* lib AuthService.addListener(callback)
AddListener(callback) ==
  /\ Len(listeners) < MaxListeners
  /\ listeners' = Append(listeners, callback)
  /\ libLast' = LibStep("addListener", 0, FALSE, listeners, <<>>, NoCallback,
                        0, Absent, fetchReq, Absent)
  /\ UNCHANGED <<authVars, view, edubot, fetchReq>>

\* The function addListener(callback) returned is called.
Unsubscribe(callback) ==
  /\ \E i \in 1 .. Len(listeners) : listeners[i] = callback
  /\ listeners' = Unsubscribed(listeners, callback)
  /\ libLast' = LibStep("unsubscribe", 0, FALSE, listeners, <<>>, callback,
                        0, Absent, fetchReq, Absent)
  /\ UNCHANGED <<authVars, view, edubot, fetchReq>>

\* ApiClient.request up to await fetch: the headers are Content-Type, the
\* auth header and the headers of the config (the methods of the client
\* pass none).
ApiRequest ==
  /\ fetchReq.st = "idle"
  /\ fetchReq' = [st |-> "sent", client |-> "apiClient",
                  hdr |-> getAuthHeader(edubot),
                  stored |-> getAccessToken(edubot),
                  valid |-> hasValidToken(edubot, now)]
  /\ libLast' = LibStep("send", 0, FALSE, listeners, <<>>, NoCallback, 0,
                        Absent, fetchReq', Absent)
  /\ UNCHANGED <<authVars, view, edubot, listeners>>

\* authFetch up to await fetch: the auth header is added when
\* authService.isAuthenticated().
AuthFetch ==
  /\ fetchReq.st = "idle"
  /\ fetchReq' = [st |-> "sent", client |-> "authFetch",
                  hdr |-> IF hasValidToken(edubot, now)
                            THEN getAuthHeader(edubot) ELSE Absent,
                  stored |-> getAccessToken(edubot),
                  valid |-> hasValidToken(edubot, now)]
  /\ libLast' = LibStep("send", 0, FALSE, listeners, <<>>, NoCallback, 0,
                        Absent, fetchReq', Absent)
  /\ UNCHANGED <<authVars, view, edubot, listeners>>

\* The server answers the request of a fetch client.  Both clients log out
\* and dispatch auth:unauthorized on 401; ApiClient.request throws an
\* ApiError for a non-2xx answer, authFetch returns the response.
FetchRespond(status, body) ==
  /\ fetchReq.st = "sent"
  /\ (status = 200) => (body = Absent)
  /\ LET error == IF fetchReq.client = "apiClient" /\ status # 200
                    THEN HttpError(status, body) ELSE Absent
         ev == IF error = Absent THEN "response" ELSE "error"
     IN IF status = 401
          THEN /\ edubot' = TokenStorage_clearTokens(edubot)
               /\ \E unsub \in Reentrant(listeners) :
                    /\ listeners' = AfterNotify(listeners, unsub)
                    /\ libLast' = LibStep(ev, status, FALSE, listeners,
                                          notifyListeners(listeners), unsub,
                                          1, error, fetchReq, Absent)
          ELSE /\ UNCHANGED <<edubot, listeners>>
               /\ libLast' = LibStep(ev, status, FALSE, listeners, <<>>,
                                     NoCallback, 0, error, fetchReq, Absent)
  /\ fetchReq' = IdleFetch
  /\ UNCHANGED <<authVars, view>>

\* The timeout of ApiClient.request fires before a response arrived:
\* controller.abort(), fetch rejects with an AbortError.
FetchTimeout ==
  /\ fetchReq.st = "sent"
  /\ fetchReq.client = "apiClient"
  /\ libLast' = LibStep("timeout", 0, FALSE, listeners, <<>>, NoCallback, 0,
                        TimeoutError, fetchReq, Absent)
  /\ fetchReq' = IdleFetch
  /\ UNCHANGED <<authVars, view, edubot, listeners>>

\* fetch rejects because no response can be had: ApiClient.request throws
\* ApiError(error.message, 0), authFetch lets the TypeError through.
FetchNetworkError ==
  /\ fetchReq.st = "sent"
  /\ libLast' = LibStep("network", 0, FALSE, listeners, <<>>, NoCallback, 0,
                        IF fetchReq.client = "apiClient" THEN NetworkError
                        ELSE [name |-> "TypeError",
                              message |-> [text |-> "Failed to fetch"]],
                        fetchReq, Absent)
  /\ fetchReq' = IdleFetch
  /\ UNCHANGED <<authVars, view, edubot, listeners>>

NextLib ==
  \/ \E authResponse \in AuthResponses : SetAuthData(authResponse)
  \/ LibLogout
  \/ \E callback \in Callbacks : AddListener(callback)
  \/ \E callback \in Callbacks : Unsubscribe(callback)
  \/ ApiRequest
  \/ AuthFetch
  \/ \E status \in LibStatuses, body \in ErrorBodies : FetchRespond(status, body)
  \/ FetchTimeout
  \/ FetchNetworkError
  \/ Tick

SpecLib == InitLib /\ [][NextLib]_vars

\* The three clients sending requests: ApiClient.request and authFetch with
\* the edubot_* keys, the axios instance with auth_token; nobody is
\* subscribed.
InitFetch ==
  /\ now = 1
  /\ localStorage \in InitStores
  /\ pathname = "/"
  /\ user = NoUser
  /\ isLoading = FALSE
  /\ r = [p \in Procs |-> IdleReq]
  /\ nOps = 0
  /\ last = Last("none", "none", 0, NoUser, IdleReq)
  /\ view = NoView
  /\ edubot \in InitEdubot
  /\ listeners = <<>>
  /\ fetchReq = IdleFetch
  /\ libLast = NoLibStep
  /\ Elsewhere

NextFetch ==
  \/ \E authResponse \in AuthResponses : SetAuthData(authResponse)
  \/ LibLogout
  \/ ApiRequest
  \/ AuthFetch
  \/ \E status \in LibStatuses, body \in ErrorBodies : FetchRespond(status, body)
  \/ FetchTimeout
  \/ FetchNetworkError
  \/ StartApi
  \/ Tick

SpecFetch == InitFetch /\ [][NextFetch]_vars


\* =========================================================== token decoder
\* A token string is modelled by the array token.split('.') gives: one
\* segment when the string has no dot.  A segment is described by its
\* characters (enc) and by the text its bytes spell (json):
\*   enc "base64":  only A-Z a-z 0-9 + / (and padding), a length atob takes;
\*   enc "urlsafe": base64url with at least one - or _ (RFC 7515 encodes
\*                  the sextets 62 and 63 so);
\*   enc "invalid": some other character, or a length atob rejects
\*                  (not-a-token, and the string undefined, are such).
\*   json "record": a JSON object, claims are its members (exp 0: no exp);
\*   json "number": the JSON text 5;  json "null": the JSON text null;
\*   json "garbage": no JSON text;  json "empty": the empty string.
Segment(enc, json, exp) == [enc |-> enc, json |-> json, exp |-> exp]

\* The header and signature segments, and a segment that is not base64.
OpaqueSegment == Segment("base64", "garbage", 0)

NotBase64 == Segment("invalid", "garbage", 0)

PayloadSegments ==
  { Segment(enc, "record", exp) : enc \in {"base64", "urlsafe"},
                                  exp \in {0, 1, FreshExp} }
  \cup { Segment(enc, json, 0) : enc \in {"base64", "urlsafe"},
                                 json \in {"number", "null", "garbage", "empty"} }
  \cup { NotBase64 }

\* The strings handed to decodeToken: without a dot, with one, with two.
TokenStrings ==
  { <<s>> : s \in PayloadSegments }
  \cup { <<OpaqueSegment, s>> : s \in PayloadSegments }
  \cup { <<OpaqueSegment, s, OpaqueSegment>> : s \in PayloadSegments }

\* An exception in flight.
Throw == [throw |-> TRUE]

\* token.split('.')[1]: undefined when the string has no dot.
split_1(token) == IF Len(token) >= 2 THEN token[2] ELSE Undefined

\* atob(payload): undefined is converted to the string undefined, nine
\* characters, which atob rejects; a segment with - or _ or another
\* character outside the base64 alphabet is rejected; else the bytes.
atob(payload) ==
  IF payload = Undefined THEN Throw
  ELSE IF payload.enc = "base64" THEN [json |-> payload.json, exp |-> payload.exp]
  ELSE Throw

\* JSON.parse(text): the value of a JSON text, a SyntaxError otherwise.
JSON_parse(text) ==
  IF text.json = "record" THEN [claims |-> TRUE, exp |-> text.exp]
  ELSE IF text.json = "number" THEN Num(5)
  ELSE IF text.json = "null" THEN Absent
  ELSE Throw

\* decodeToken on a token string: try { JSON.parse(atob(token.split('.')[1])) }
\* catch { return null }
decodeTokenString(token) ==
  LET payload == split_1(token)
      bytes == atob(payload)
      value == IF bytes = Throw THEN Throw ELSE JSON_parse(bytes)
  IN IF value = Throw THEN Absent ELSE value

\* isTokenExpired on a token string: !decoded || !decoded.exp, else
\* decoded.exp < Date.now() / 1000.
isTokenExpiredString(token, time) ==
  LET d == decodeTokenString(token) IN
  IF d = Absent THEN TRUE
  ELSE IF "exp" \notin DOMAIN d THEN TRUE
  ELSE IF d.exp = 0 THEN TRUE
  ELSE d.exp < time

InitDecode ==
  /\ now \in 1 .. MaxTime
  /\ localStorage = clearAll(localStorage)
  /\ pathname = "/"
  /\ user = NoUser
  /\ isLoading = FALSE
  /\ r = [p \in Procs |-> IdleReq]
  /\ nOps = 0
  /\ last = Last("none", "none", 0, NoUser, IdleReq)
  /\ view = NoView
  /\ LibIdle
  /\ loggedOut = FALSE
  /\ dash = DashIdle
  /\ \E token \in TokenStrings :
       decoding = [NoDecode EXCEPT !.token = token, !.st = "given"]

\* decodeToken(token) is called.
Decode ==
  /\ decoding.st = "given"
  /\ decoding' = [decoding EXCEPT !.st = "decoded",
                                  !.result = decodeTokenString(decoding.token),
                                  !.threw = (decodeTokenString(decoding.token) = Throw)]
  /\ UNCHANGED <<now, localStorage, pathname, user, isLoading, r, nOps, last,
                 view, edubot, listeners, fetchReq, libLast, loggedOut, dash>>

\* isTokenExpired(token) is called.
CheckExpired ==
  /\ decoding.st = "decoded"
  /\ decoding' = [decoding EXCEPT !.st = "checked",
                                  !.expired = isTokenExpiredString(decoding.token, now)]
  /\ UNCHANGED <<now, localStorage, pathname, user, isLoading, r, nOps, last,
                 view, edubot, listeners, fetchReq, libLast, loggedOut, dash>>

NextDecode == Decode \/ CheckExpired

SpecDecode == InitDecode /\ [][NextDecode]_vars



\* ================================================ two contexts, one store
\* Two execution contexts (tabs) run the axios instance on the same
\* localStorage.  Each sends one request; the server answers each request
\* and each POST /auth/refresh on its own.  The tokens a refresh answer
\* carries are marked (via) with the context whose refresh call it answers.
Tabs == {"tabA", "tabB"}

\* The bodies a successful POST /auth/refresh of context t may carry: the
\* access token a JWT with an exp ahead of the client's clock, or a string
\* the client cannot decode; with or without a new refresh token.
TabRefreshBodies(t) ==
  { [access_token |-> at, refresh_token |-> rt] :
      at \in {Tok("jwt", FreshExp, t), Tok("opaque", 0, t)},
      rt \in {Absent, Tok("jwt", FreshExp, t)} }

\* The request of a context: its place, config.headers.Authorization and
\* _retry; the sends, refresh calls and assignments of location.href made
\* for it; and history: how the stored refresh token was judged when its
\* failure was handled, whether another context had a refresh call in
\* flight when this one issued its own, the access token its refresh
\* returned, whether that answer carried a refresh token, and whether the
\* request interceptor found a stored access token that it judged expired
\* when the request was last sent.
IdleTab ==
  [st |-> "idle", hdr |-> NoToken, retry |-> FALSE, nSend |-> 0,
   nRefresh |-> 0, nRedir |-> 0, judged |-> "absent", concurrent |-> FALSE,
   fresh |-> NoToken, withRefresh |-> FALSE, sentExpired |-> FALSE]

InitTabs ==
  /\ now = 1
  /\ localStorage \in InitStores
  /\ pathname = "/"
  /\ user = NoUser
  /\ isLoading = FALSE
  /\ r = [t \in Tabs |-> IdleTab]
  /\ nOps = 0
  /\ last = Last("none", "none", 0, NoUser, IdleReq)
  /\ view = NoView
  /\ LibIdle
  /\ Elsewhere

\* Context t calls the instance: its request interceptor runs on the
\* shared store.
TabSend(t) ==
  /\ r[t].st = "idle"
  /\ localStorage' = requestInterceptor(localStorage, NoToken, now, pathname).ls
  /\ LET ri == requestInterceptor(localStorage, NoToken, now, pathname) IN
       r' = [r EXCEPT ![t] =
               [IdleTab EXCEPT !.st = "sent", !.hdr = ri.hdr,
                               !.nSend = 1, !.nRedir = ri.redir,
                               !.sentExpired =
                                 /\ localStorage.auth_token # NoToken
                                 /\ isTokenExpired(localStorage.auth_token, now)]]
  /\ last' = Last(t, "send", 0, NoUser, r'[t])
  /\ UNCHANGED <<now, pathname, user, isLoading, nOps, loggedOut>>
  /\ UNCHANGED otherVars

\* The request of context t is answered 2xx.
TabRespondOk(t) ==
  /\ r[t].st \in {"sent", "resent"}
  /\ r[t].hdr # NoToken
  /\ r' = [r EXCEPT ![t] = [@ EXCEPT !.st = "done"]]
  /\ last' = Last(t, "ok", 200, NoUser, r'[t])
  /\ UNCHANGED <<now, localStorage, pathname, user, isLoading, nOps, loggedOut>>
  /\ UNCHANGED otherVars

\* The request of context t fails: the error handler of its response
\* interceptor runs.  It reads the shared store and nothing else: no state
\* of the other context enters its decision.
TabRespondError(t, status) ==
  /\ r[t].st \in {"sent", "resent"}
  /\ status \in Statuses \ {200}
  /\ LET q == [r[t] EXCEPT !.judged = RefreshJudged(localStorage, now)] IN
     IF ShouldRefresh(status, q.retry)
       THEN IF HasValidRefresh(localStorage, now)
              THEN /\ r' = [r EXCEPT ![t] =
                              [q EXCEPT !.retry = TRUE,
                                        !.st = "refreshing",
                                        !.nRefresh = @ + 1,
                                        !.concurrent =
                                          \E o \in Tabs \ {t} :
                                            r[o].st = "refreshing"]]
                   /\ last' = Last(t, "refreshing", status, NoUser, r'[t])
                   /\ UNCHANGED localStorage
              ELSE /\ localStorage' = clearAll(localStorage)
                   /\ r' = [r EXCEPT ![t] = [q EXCEPT !.retry = TRUE,
                                                      !.st = "done",
                                                      !.nRedir = @ + 1]]
                   /\ last' = Last(t, "fail", status, NoUser, r'[t])
       ELSE /\ r' = [r EXCEPT ![t] = [q EXCEPT !.st = "done"]]
            /\ last' = Last(t, "fail", status, NoUser, r'[t])
            /\ UNCHANGED localStorage
  /\ UNCHANGED <<now, pathname, user, isLoading, nOps, loggedOut>>
  /\ UNCHANGED otherVars

\* The POST /auth/refresh of context t succeeds: the tokens of its answer
\* are written to the shared store and the request is sent again.
TabRefreshOk(t) ==
  /\ r[t].st = "refreshing"
  /\ \E body \in TabRefreshBodies(t) :
       LET ls1 == setToken(localStorage, body.access_token)
           ls2 == IF body.refresh_token # Absent
                    THEN setRefreshToken(ls1, body.refresh_token)
                    ELSE ls1
           ri  == requestInterceptor(ls2, body.access_token, now, pathname)
       IN /\ localStorage' = ri.ls
          /\ r' = [r EXCEPT ![t] = [@ EXCEPT !.st = "resent",
                                             !.hdr = ri.hdr,
                                             !.nSend = @ + 1,
                                             !.nRedir = @ + ri.redir,
                                             !.fresh = body.access_token,
                                             !.withRefresh =
                                               (body.refresh_token # Absent),
                                             !.sentExpired =
                                               isTokenExpired(ls2.auth_token, now)]]
          /\ last' = Last(t, "resent", 200, NoUser, r'[t])
  /\ UNCHANGED <<now, pathname, user, isLoading, nOps, loggedOut>>
  /\ UNCHANGED otherVars

\* The POST /auth/refresh of context t fails: clearAll on the shared store,
\* location.href = '/login', reject(refreshError).
TabRefreshError(t, status) ==
  /\ r[t].st = "refreshing"
  /\ status \in Statuses \ {200}
  /\ localStorage' = clearAll(localStorage)
  /\ r' = [r EXCEPT ![t] = [@ EXCEPT !.st = "done", !.nRedir = @ + 1]]
  /\ last' = Last(t, "refreshFailed", status, NoUser, r'[t])
  /\ UNCHANGED <<now, pathname, user, isLoading, nOps, loggedOut>>
  /\ UNCHANGED otherVars

NextTabs ==
  \/ \E t \in Tabs : TabSend(t)
  \/ \E t \in Tabs : TabRespondOk(t)
  \/ \E t \in Tabs, status \in Statuses : TabRespondError(t, status)
  \/ \E t \in Tabs : TabRefreshOk(t)
  \/ \E t \in Tabs, status \in Statuses : TabRefreshError(t, status)
  \/ Tick

SpecTabs == InitTabs /\ [][NextTabs]_vars



\* ========================================================== AdminDashboard
InitDash ==
  /\ now = 1
  /\ localStorage = [auth_token |-> Tok("jwt", FreshExp, "login"),
                     refresh_token |-> NoToken]
  /\ pathname = "/admin"
  /\ user \in { u \in Users : u.role = "admin" }
  /\ isLoading = FALSE
  /\ r = [p \in Procs |-> IdleReq]
  /\ nOps = 0
  /\ last = Last("none", "none", 0, NoUser, IdleReq)
  /\ view = NoView
  /\ LibIdle
  /\ Elsewhere

PromiseAll_any(fetch) ==
  IF \E i \in 1 .. 3 : fetch[i] = Failed THEN "rejected"
  ELSE IF \E i \in 1 .. 3 : fetch[i] # Pending THEN "fulfilled"
  ELSE "pending"

\* Promise.all over the three fetches: rejected as soon as one is rejected,
\* fulfilled when all three are fulfilled, pending otherwise.
PromiseAll(fetch) ==
  IF \E i \in 1 .. 3 : fetch[i] = Failed THEN "rejected"
  ELSE IF \A i \in 1 .. 3 : fetch[i] # Pending THEN "fulfilled"
  ELSE "pending"

Lists == <<dash.users, dash.students, dash.teachers>>

\* loadUsers up to await Promise.all: setIsLoading(true) and the three
\* calls of AuthService are made.  The mount effect calls it when isAdmin,
\* onRegisterStudent and onRegisterTeacher call it again.
LoadUsers(k) ==
  /\ user # NoUser /\ user.role = "admin"
  /\ dash.loads[k].st = "none"
  /\ k > 1 => dash.loads[k - 1].st # "none"
  /\ dash' = [dash EXCEPT !.loads[k] = [st |-> "awaiting",
                                        fetch |-> <<Pending, Pending, Pending>>],
                          !.isLoading = TRUE,
                          !.ev = "start", !.k = k, !.before = Lists]
  /\ UNCHANGED <<now, localStorage, pathname, user, isLoading, r, nOps, last,
                 view, edubot, listeners, fetchReq, libLast, loggedOut, decoding>>

\* The i-th fetch of the k-th call settles with outcome (a list, or
\* Failed); when that settles Promise.all while loadUsers awaits it,
\* loadUsers runs on to its end: the three setters, or the catch, and the
\* finally.  A fetch that settles after Promise.all was rejected changes
\* nothing.
FetchSettle(k, i, outcome) ==
  /\ dash.loads[k].fetch[i] = Pending
  /\ LET fetch == [dash.loads[k].fetch EXCEPT ![i] = outcome]
         join == IF dash.loads[k].st = "awaiting" THEN PromiseAll(fetch)
                 ELSE "pending"
     IN dash' =
          IF join = "fulfilled"
            THEN [dash EXCEPT !.loads[k] = [st |-> "done", fetch |-> fetch],
                              !.users = fetch[1], !.students = fetch[2],
                              !.teachers = fetch[3],
                              !.isLoading = FALSE,
                              !.ev = "loaded", !.k = k, !.before = Lists]
          ELSE IF join = "rejected"
            THEN [dash EXCEPT !.loads[k] = [st |-> "done", fetch |-> fetch],
                              !.error = "Failed to load users",
                              !.isLoading = FALSE,
                              !.ev = "failed", !.k = k, !.before = Lists]
          ELSE [dash EXCEPT !.loads[k].fetch = fetch,
                            !.ev = "settled", !.k = k, !.before = Lists]
  /\ UNCHANGED <<now, localStorage, pathname, user, isLoading, r, nOps, last,
                 view, edubot, listeners, fetchReq, libLast, loggedOut, decoding>>

NextDash ==
  \/ \E k \in 1 .. MaxLoads : LoadUsers(k)
  \/ \E k \in 1 .. MaxLoads, i \in 1 .. 3 : FetchSettle(k, i, List(k))
  \/ \E k \in 1 .. MaxLoads, i \in 1 .. 3 : FetchSettle(k, i, Failed)

SpecDash == InitDash /\ [][NextDash]_vars



\* ================================================================== claims
\* The promise of a call made through the instance has just settled.
Settled == last.ev \in {"ok", "fail", "fetchFail", "cleaned"}

Cleared == localStorage = clearAll(localStorage)

\* C1: a request issued while the stored access token is expired and a
\* valid refresh token is stored succeeds transparently: once the server
\* has answered, it settles with a successful response, and the store then
\* holds the access token the refresh endpoint returned.
C1_TransparentRefresh ==
  (last.p = "api" /\ Settled /\ last.status \in {200, 401}
     /\ last.req.preExpired /\ last.req.preRefresh = "valid")
  => /\ last.ev = "ok"
     /\ last.req.fresh # NoToken
     /\ localStorage.auth_token = last.req.fresh

\* C2: for every original request the 401 handler attempts at most one
\* refresh and sends the request again at most once, and only after a
\* refresh; a 401 on the request sent again settles the call (it is
\* rejected) without another refresh.
C2_NoRefreshLoop ==
  /\ \A p \in Procs : /\ r[p].nRefresh <= 1
                      /\ r[p].nSend <= 1 + r[p].nRefresh
  /\ last.req.nRefresh <= 1
  /\ last.req.nSend <= 1 + last.req.nRefresh
  /\ (last.status = 401 /\ last.req.nSend = 2)
       => last.ev \in {"fail", "fetchFail", "cleaned"}

\* C2 witness: a call was refreshed once, sent again, answered 401 again
\* and rejected.
C2_Witness ==
  /\ last.p = "api" /\ last.ev = "fail" /\ last.status = 401
  /\ last.req.nSend = 2 /\ last.req.nRefresh = 1

\* C3: a request issued with an expired access token and an invalid or
\* absent refresh token ends with the store cleared and exactly one
\* signal to go to the login page made for that request.
C3_ExactlyOneUnauthorized ==
  (last.p = "api" /\ Settled /\ last.req.preExpired
     /\ last.req.preRefresh # "valid")
  => (Cleared /\ last.req.nRedir = 1)


C5_LoginReplacesSession ==
  (last.p = "login" /\ last.ev = "ok")
  => /\ localStorage.auth_token.via = "login"
     /\ localStorage.refresh_token.via \in {"login", "none"}
     /\ user = last.user

\* C6: a login the server rejects with 401 leaves the store as it was when
\* login() was called.
C6_RejectedLoginUntouched ==
  (last.p = "login" /\ last.ev = "fail" /\ last.status = 401)
  => localStorage = last.req.pre

\* C7: when login() resolves, isAuthenticated is true and the cached user
\* is non-null and has the id, email and role of the user the server
\* returned (role admin for the admin user).
C7_LoginAuthenticates ==
  (last.p = "login" /\ last.ev = "ok")
  => /\ isAuthenticated
     /\ user # NoUser
     /\ user.id = last.user.id
     /\ user.email = last.user.email
     /\ user.role = last.user.role

\* C7 witness: the scenario login, answered with the admin user.
C7_Witness ==
  /\ last.p = "login" /\ last.ev = "ok"
  /\ last.user.email = "admin@school.com"
  /\ user.role = "admin"

\* C8: when logout() completes, whatever the logout call's outcome (2xx,
\* any error status, no response), the store holds no access token and no
\* refresh token and the cached user is null.
C8_LogoutAnonymous ==
  (last.p = "logout" /\ last.ev \in {"ok", "fail"})
  => (Cleared /\ user = NoUser /\ ~isAuthenticated /\ ~isLoading)

\* C8 witness: logout() of a session whose token was sent with the call
\* completes though the call got no response.
C8_Witness ==
  /\ last.p = "logout" /\ last.ev = "fail" /\ last.status = 0
  /\ last.req.hdr # NoToken

C11_GuardDecision ==
  view.route = "ProtectedRoute"
  => LET required == view.requiredRole # NotPassed \/ view.allowedRoles # Absent
         roleSet ==
           (IF view.requiredRole # NotPassed THEN {view.requiredRole} ELSE Roles)
           \cap
           (IF view.allowedRoles # Absent THEN view.allowedRoles.roles ELSE Roles)
     IN view.decision =
          IF isLoading THEN "ShowLoading"
          ELSE IF ~isAuthenticated THEN "RedirectToLogin"
          ELSE IF required /\ user.role \notin roleSet
            THEN "RedirectToUnauthorized"
          ELSE "Render"

\* C11 witness: an authenticated user is turned away by allowedRoles alone.
C11_Witness ==
  /\ view.route = "ProtectedRoute"
  /\ view.requiredRole = NotPassed
  /\ view.decision = "RedirectToUnauthorized"

\* C12 as stated: with an authenticated admin session the guard of the
\* student route returns RedirectToUnauthorized.
C12_AdminTurnedAway ==
  (view.route = "/student" /\ ~isLoading /\ isAuthenticated
     /\ user.role = "admin")
  => view.decision = "RedirectToUnauthorized"

\* C12 as amended: with an authenticated session of any role (admin,
\* teacher or student) the guard of the student route returns Render.
C12_Amended ==
  (view.route = "/student" /\ ~isLoading /\ isAuthenticated)
  => view.decision = "Render"

\* C12 witness: an authenticated admin on the student route.
C12_Witness ==
  /\ view.route = "/student" /\ ~isLoading /\ isAuthenticated
  /\ user.role = "admin"
  /\ view.decision = "Render"

\* C13: PublicRoute never renders its children to an authenticated user:
\* when not loading and authenticated it redirects to the dashboard of the
\* user's role; when not loading and not authenticated it renders them.
C13_PublicRoute ==
  view.route \in {"/", "/forgot-password"}
  => /\ isAuthenticated => view.decision # "Render"
     /\ (~isLoading /\ isAuthenticated)
          => view.decision =
               IF user.role = "admin" THEN "Navigate:/admin"
               ELSE IF user.role = "teacher" THEN "Navigate:/teacher"
               ELSE "Navigate:/student"
     /\ (~isLoading /\ ~isAuthenticated) => view.decision = "Render"

\* C13 witness: an authenticated teacher on the home page.
C13_Witness ==
  /\ view.route = "/" /\ isAuthenticated
  /\ view.decision = "Navigate:/teacher"

\* The lib client has just cleared its store: logout(), or a 401 answer.
LibCleared == libLast.ev = "logout" \/ libLast.events = 1

\* C14: in every state reachable by setTokens and clear operations, a store
\* that holds no access token reports isTokenExpired() = true and
\* hasValidToken() = false.
C14_NoTokenIsExpired ==
  getAccessToken(edubot) = Absent
  => /\ TokenStorage_isTokenExpired(edubot, now)
     /\ ~hasValidToken(edubot, now)

\* C14 witness: a store that held a valid token when a request was sent was
\* cleared by the 401 answer and reports expired.
C14_Witness ==
  /\ libLast.events = 1 /\ libLast.req.valid
  /\ getAccessToken(edubot) = Absent
  /\ TokenStorage_isTokenExpired(edubot, now)

\* C15: isTokenExpired() is true right after a clear, and false right after
\* setTokens with a positive expires_in, whatever the store held before.
C15_ExpiredAfterClearOnly ==
  /\ LibCleared => TokenStorage_isTokenExpired(edubot, now)
  /\ (libLast.ev = "setAuthData" /\ libLast.at = now
        /\ libLast.arg # Absent /\ libLast.arg.num > 0)
       => ~TokenStorage_isTokenExpired(edubot, now)

\* C15 witness: setTokens with expires_in = 1 on a store that held keys.
C15_Witness ==
  /\ libLast.ev = "setAuthData" /\ libLast.at = now
  /\ libLast.arg = Num(1) /\ libLast.held
  /\ ~TokenStorage_isTokenExpired(edubot, now)

\* C16: a clear removes every key its client writes: after clearTokens of
\* the lib client none of the four edubot_* keys is set, and after clearAll
\* of the axios client neither auth_token nor refresh_token is set.
C16_ClearRemovesEveryKey ==
  /\ LibCleared
       => /\ edubot = EmptyEdubot
          /\ getUserProfile(edubot) = Absent
  /\ (last.p = "api" /\ last.ev = "send" /\ last.req.preExpired)
       => /\ localStorage.auth_token = NoToken
          /\ localStorage.refresh_token = NoToken

\* C16 witness: logout() of the lib client on a store that held keys.
C16_Witness ==
  libLast.ev = "logout" /\ libLast.held /\ edubot = EmptyEdubot

\* C17: a request sent while a non-expired access token is stored carries
\* that token as its bearer token, in ApiClient.request, in authFetch and
\* in the axios instance.
C17_BearerAttached ==
  /\ (libLast.ev = "send" /\ libLast.at = now /\ fetchReq.st = "sent"
        /\ hasValidToken(edubot, now))
       => fetchReq.hdr = getAccessToken(edubot)
  /\ (last.p = "api" /\ last.ev = "send"
        /\ localStorage.auth_token # NoToken
        /\ ~isTokenExpired(localStorage.auth_token, now))
       => r["api"].hdr = localStorage.auth_token

\* C17 witness: ApiClient.request sent with a valid stored token.
C17_Witness ==
  /\ libLast.ev = "send" /\ libLast.at = now
  /\ fetchReq.client = "apiClient"
  /\ hasValidToken(edubot, now)
  /\ fetchReq.hdr # Absent

C19_LoginErrorMessage ==
  (last.p = "login" /\ last.ev = "fail")
  => last.req.err = IF last.req.msg # "" THEN last.req.msg ELSE "Login failed"

\* C20: the error of a request of ApiClient whose timeout fired is of a kind
\* (name, status, message) that no non-2xx answer of a server and no failure
\* without a response produces.
C20_TimeoutKindDistinct ==
  LET Kind(e) == <<e.name, e.status, e.message>>
  IN /\ libLast.ev = "timeout" => Kind(libLast.error) = Kind(TimeoutError)
     /\ (libLast.ev \in {"error", "network"}
           /\ libLast.req.client = "apiClient")
          => Kind(libLast.error) # Kind(TimeoutError)

\* C21: a non-2xx answer to a request of ApiClient is thrown as one ApiError
\* whose status is the status of the answer and whose message is the detail
\* of the body when it has a non-empty one, else the message of the body
\* when it has a non-empty one, else HTTP <status>: <statusText>; it is
\* never returned as a value.
C21_ErrorNormalised ==
  (libLast.ev \in {"response", "error"} /\ libLast.req.client = "apiClient"
     /\ libLast.status # 200)
  => /\ libLast.ev = "error"
     /\ libLast.error.name = "ApiError"
     /\ libLast.error.status = libLast.status
     /\ LET body == libLast.error.response
            Has(field) == /\ body # Absent
                          /\ field \in DOMAIN body
                          /\ body[field].text # ""
        IN libLast.error.message =
             IF Has("detail") THEN body.detail
             ELSE IF Has("message") THEN body.message
             ELSE [http |-> libLast.status]

\* What both fetch clients do with an answer of status 401: the edubot_*
\* keys are removed, every subscribed callback is called with false, one
\* auth:unauthorized event is dispatched, and nothing is sent again.
Funnelled401 ==
  /\ edubot = EmptyEdubot
  /\ libLast.value = FALSE
  /\ libLast.delivered = libLast.before
  /\ libLast.events = 1
  /\ fetchReq = IdleFetch

C22_DecodeTotal ==
  LET token == decoding.token
      WellFormed == /\ Len(token) >= 2
                    /\ token[2].enc \in {"base64", "urlsafe"}
                    /\ token[2].json = "record"
  IN decoding.st \in {"decoded", "checked"}
     => /\ ~decoding.threw
        /\ decoding.result # Throw
        /\ IF WellFormed
             THEN decoding.result = [claims |-> TRUE, exp |-> token[2].exp]
             ELSE decoding.result = Absent

\* C24: contexts sharing the store are not coordinated.  Whenever a context
\* handles the first 401 of its request while a valid refresh token is
\* stored, it issues its own refresh call, whatever the other context is
\* doing; and when a refresh answer is processed, the store holds the
\* access token of that answer, and its refresh token when it carries one,
\* whatever it held before (last write wins), unless the client judges the
\* new access token expired.
C24_Uncoordinated ==
  /\ (last.status = 401 /\ last.ev \in {"refreshing", "fail"}
        /\ last.req.nSend = 1 /\ last.req.judged = "valid")
       => /\ last.ev = "refreshing"
          /\ r[last.p].st = "refreshing"
          /\ r[last.p].nRefresh = 1
  /\ (last.ev = "resent" /\ ~isTokenExpired(last.req.fresh, now))
       => /\ localStorage.auth_token = last.req.fresh
          /\ localStorage.auth_token.via = last.p
          /\ last.req.withRefresh => localStorage.refresh_token.via = last.p

\* C24 witness: both contexts refreshed at the same time, and the store
\* ends with the access token of one refresh and the refresh token of the
\* other.
C24_Witness ==
  /\ \A t \in Tabs : r[t].nRefresh = 1 /\ r[t].st \in {"resent", "done"}
  /\ \E t \in Tabs : r[t].concurrent
  /\ localStorage.auth_token.via = "tabB"
  /\ localStorage.refresh_token.via = "tabA"


\* C25: loadUsers issues its three fetches at once and joins on them: the
\* lists change only in the step in which all three fetches of a call have
\* succeeded, and then they are the three results; when a fetch of a call
\* fails while the call awaits them, no list changes and the error is set;
\* either way the loading flag is false when the call ends.
C25_LoadUsersJoin ==
  /\ dash.ev = "start"
       => /\ dash.loads[dash.k].fetch = <<Pending, Pending, Pending>>
          /\ dash.isLoading
  /\ Lists # dash.before => dash.ev = "loaded"
  /\ dash.ev = "loaded"
       => /\ \A i \in 1 .. 3 : dash.loads[dash.k].fetch[i] = List(dash.k)
          /\ Lists = dash.loads[dash.k].fetch
          /\ ~dash.isLoading
  /\ dash.ev = "failed"
       => /\ Lists = dash.before
          /\ dash.error = "Failed to load users"
          /\ ~dash.isLoading
  /\ \A k \in 1 .. MaxLoads :
       (dash.loads[k].st = "awaiting")
         => \A i \in 1 .. 3 : dash.loads[k].fetch[i] # Failed

\* C25 witness: a second call of loadUsers failed on its third fetch after
\* two had succeeded, and the lists are still those of the first call.
C25_Witness ==
  /\ dash.ev = "failed" /\ dash.k = 2
  /\ dash.loads[2].fetch = <<List(2), List(2), Failed>>
  /\ Lists = <<List(1), List(1), List(1)>>


\* C26: the two expiry checks agree.  initializeAuth and refreshUser send
\* their request only after AuthService.isAuthenticated() returned true for
\* the stored token; that request then carries the stored token as its
\* bearer, and sending it neither clears the store nor assigns
\* window.location.href.
C26_ChecksAgree ==
  (last.ev = "send" /\ last.p \in {"init", "refreshUser"})
  => /\ last.req.hdr # NoToken
     /\ localStorage.auth_token = last.req.hdr
     /\ ~last.req.preExpired
     /\ last.req.nRedir = 0


\* C28: a request never goes out with an access token the client judges
\* expired: when the request interceptor finds a stored access token that
\* is expired or does not decode, both tokens are removed from the store
\* and the request is sent without an Authorization header.
C28_ExpiredNeverSent ==
  (last.ev \in {"send", "resent"} /\ last.req.sentExpired)
  => /\ localStorage = clearAll(localStorage)
     /\ last.req.hdr = NoToken

\* C27: once logout() has completed and until a login() succeeds, the
\* cached user is null and isAuthenticated is false, whatever a profile
\* fetch that was in flight when logout() started does afterwards.
C27_LoggedOutStays ==
  loggedOut => (user = NoUser /\ ~isAuthenticated)


\* C29: a login() that fails leaves the derived AuthState alone: when the
\* user was loaded and isAuthenticated was true as the call was rejected,
\* the user is the same and isAuthenticated is still true afterwards.
C29_FailedLoginFrame ==
  [][(r["login"].st # "idle" /\ last'.p = "login" /\ last'.ev = "fail"
        /\ user # NoUser /\ isAuthenticated)
       => (user' = user /\ isAuthenticated')]_vars


\* While the bootstrap has not finished, isLoading is true.
C30_LoadingUntilBootstrapEnds ==
  r["init"].st # "idle" => isLoading

\* A loading state always ends.
C30_LoadingSettles ==
  isLoading ~> ~isLoading

\* C30: isLoading always settles. It is true from application start until
\* the bootstrap finishes, and once every request in flight is answered or
\* timed out, every bootstrap, login() and logout() has set isLoading back
\* to false, whatever the outcome.
C30_AlwaysSettles ==
  []C30_LoadingUntilBootstrapEnds /\ C30_LoadingSettles


====
